---- MODULE Spec2Model ----
(***************************************************************************)
(* Client selection of fedzero: the three selection strategies of          *)
(* fedzero/selection_strategy.py (Random, FedZero, Oort), the candidate    *)
(* filters, the green and brown optimisation models and the exclusion      *)
(* bookkeeping of the FedZero strategy.                                    *)
(*                                                                         *)
(* Numbers.  Batches are integers (the solver's continuous allocation is   *)
(* restricted to whole batches).  Energies are floats in the code; here an *)
(* energy e is held as the integer 2*e (half units), so that 0.5 is        *)
(* representable and round() and int() are not the identity.  Times are    *)
(* minutes.  Rationals (means, probabilities) are pairs <<num, den>>.      *)
(***************************************************************************)
EXTENDS Integers, Sequences, FiniteSets, TLC

VARIABLES
    cfg,                  \* constructor arguments of the strategies
    env,                  \* arguments and provider data of the last select call
    result,               \* what the last select call returned or raised
    op,                   \* the operation that produced the current state
    participated_rounds,  \* Client.participated_rounds
    last_round,           \* round of each client's latest participation (-1: never)
    stat_util,            \* Client.statistical_utility()
    is_brown,             \* Client.is_brown
    fz,                   \* state of the FedZeroSelectionStrategy instance
    fz2,                  \* a second FedZero instance built with the same seed
    stream,               \* the uniform draws the seed determines, as far as drawn
    oort,                 \* state of the OortSelector behind OortSelectionStrategy
    calls,                \* number of select calls made
    weighting,            \* what the last utility() call of the judge returned
    trace                 \* locals of the last FedZero select and the lines it printed

vars == <<cfg, env, result, op, participated_rounds, last_round, stat_util,
          is_brown, fz, fz2, stream, oort, calls, weighting, trace>>

---------------------------------------------------------------------------
(* Bounds of the model *)

NumClients == 3
MaxK == 2
MaxLoad == 2
MaxCalls == 1
\* config.py sets MAX_ROUND_IN_MIN = 60; the model searches horizons 1..2
MAX_ROUND_IN_MIN == 2

(* Program constants, fedzero/config.py *)

TIMESTEP_IN_MIN == 1
MIN_LOCAL_EPOCHS == 1
ENABLE_BROWN_CLIENTS_DURING_TIME_WINDOW == TRUE
TIME_WINDOW_LOWER_BOUND == 1
TIME_WINDOW_UPPER_BOUND == 10
BROWN_CLIENTS_ALLOWANCE == TRUE
BROWN_EXCLUSION_UPDATE == TRUE
BROWN_CLIENTS_BUDGET_PERCENTAGE == 3
BROWN_CLIENTS_NUMBER_PERCENTAGE == 3

---------------------------------------------------------------------------
(* Arithmetic helpers *)

Min2(a, b) == IF a <= b THEN a ELSE b
Max2(a, b) == IF a >= b THEN a ELSE b

RECURSIVE SeqSum(_)
SeqSum(s) == IF s = <<>> THEN 0 ELSE Head(s) + SeqSum(Tail(s))

RECURSIVE SetSum(_, _)
\* sum of f[x] over x in S
SetSum(f, S) ==
    IF S = {} THEN 0
    ELSE LET x == CHOOSE y \in S : TRUE IN f[x] + SetSum(f, S \ {x})

RECURSIVE SortedSeq(_)
\* the integers of S in increasing order (DataFrame.sort_index on the clients)
SortedSeq(S) ==
    IF S = {} THEN <<>>
    ELSE LET m == CHOOSE x \in S : \A y \in S : x <= y
         IN <<m>> \o SortedSeq(S \ {m})

Range(s) == {s[i] : i \in 1..Len(s)}

\* Python round() of the rational n/m, m > 0, n >= 0: ties go to the even integer
RoundHalfEven(n, m) ==
    LET q == n \div m
        r == n % m
    IN IF 2 * r < m THEN q
       ELSE IF 2 * r > m THEN q + 1
       ELSE IF q % 2 = 0 THEN q ELSE q + 1

---------------------------------------------------------------------------
(* Participants and zones: fedzero.entities.Client, static part *)

Clients == 1..NumClients
Zones == {1, 2}
zone(c) == 1 + (c % 2)
\* Client.energy_per_batch in half units: client 1 needs 0.5 per batch, the others 1.0
energy_per_batch2(c) == IF c = 1 THEN 1 ELSE 2
\* Client.batches_per_epoch
batches_per_epoch(c) == IF c = 2 THEN 2 ELSE 1
max_epochs == 2

---------------------------------------------------------------------------
(* Provider data of one select call.  env.loadFc[c][i] is                  *)
(* client_load_api.forecast(now, d, c)[i-1] and also                       *)
(* client_load_api.forecast(now + (i-1) timesteps, 1, c)[0]; env.powerFc   *)
(* likewise, in half units; env.loadActual / env.powerActual are the       *)
(* providers' actual(now, ...).                                            *)

MaxD == MAX_ROUND_IN_MIN \div TIMESTEP_IN_MIN

\* zones_with_energy and the clients with capacity now
\* (_filterby_current_capacity_and_energy)
FilterCurrent(e) ==
    {c \in Clients : e.powerActual[zone(c)] > 0 /\ e.loadActual[c] > 0}

\* sum over the first d timesteps of min(load, power / energy_per_batch),
\* times energy_per_batch2 (the comparison is scaled by it)
ForecastBatches2(e, c, d) ==
    SeqSum([i \in 1..d |->
              Min2(e.loadFc[c][i] * energy_per_batch2(c), e.powerFc[zone(c)][i])])

\* _filterby_forecasted_capacity_and_energy
FilterForecast(e, clients, d, min_epochs) ==
    {c \in clients :
        ForecastBatches2(e, c, d) >=
            batches_per_epoch(c) * min_epochs * energy_per_batch2(c)}

\* _filterby_current_capacity
FilterCapacity(e, clients, d, min_epochs) ==
    {c \in clients :
        SeqSum([i \in 1..d |-> e.loadFc[c][i]]) >= batches_per_epoch(c) * min_epochs}

---------------------------------------------------------------------------
(* The optimisation models.  A solution is a function from the selected    *)
(* clients (b[c] = 1) to their allocation over timesteps 1..d; a client    *)
(* with b[c] = 0 is allocated nothing.                                     *)

\* ClientAllocOk without the max_batches indicator constraint
ClientAllocNoMax(e, c, d, v, lo, hi) ==
    /\ \A i \in 1..d : v[i] <= e.loadFc[c][i]
    /\ SeqSum(v) >= lo

\* an allocation v of one selected client: within the capacity forecast (the
\* variable's upper bound) at every timestep, the total between lo and hi
ClientAllocOk(e, c, d, v, lo, hi) ==
    /\ \A i \in 1..d : v[i] <= e.loadFc[c][i]
    /\ SeqSum(v) >= lo
    /\ SeqSum(v) <= hi

\* EnergyAt that sums the batches without client.energy_per_batch
EnergyAtBatches(a, S, i) ==
    SetSum([c \in S |-> a[c][i]], S)

\* energy (half units) that solution a draws at timestep i from the clients in S
EnergyAt(a, S, i) ==
    SetSum([c \in S |-> a[c][i] * energy_per_batch2(c)], S)

\* energy (half units) of a whole solution
Energy2(a) ==
    SetSum([c \in DOMAIN a |-> SeqSum(a[c]) * energy_per_batch2(c)], DOMAIN a)

\* objective: sum of b[c] * utility[c] * m_alloc[c, t]
Objective(a, utility) ==
    SetSum([c \in DOMAIN a |-> utility[c] * SeqSum(a[c])], DOMAIN a)

Optimal(F, utility) ==
    IF F = {} THEN {}
    ELSE LET vals == {Objective(a, utility) : a \in F}
             best == CHOOSE v \in vals : \A w \in vals : w <= v
         IN {a \in F : Objective(a, utility) = best}

\* GreenFeasible with sum(b) <= clients_per_round in place of ==
GreenFeasibleAtMostK(e, clients, d, K, min_epochs) ==
    UNION {
        {a \in [S -> [1..d -> 0..MaxLoad]] :
            /\ \A c \in S :
                  ClientAllocOk(e, c, d, a[c], batches_per_epoch(c) * min_epochs,
                                batches_per_epoch(c) * max_epochs)
            /\ \A z \in {zone(c) : c \in clients} : \A i \in 1..d :
                  EnergyAt(a, {c \in S : zone(c) = z}, i) <= e.powerFc[z][i]}
        : S \in {T \in SUBSET clients : Cardinality(T) <= K}}

\* constraints of _optimal_selection
GreenFeasible(e, clients, d, K, min_epochs) ==
    UNION {
        {a \in [S -> [1..d -> 0..MaxLoad]] :
            /\ \A c \in S :
                  ClientAllocOk(e, c, d, a[c], batches_per_epoch(c) * min_epochs,
                                batches_per_epoch(c) * max_epochs)
            /\ \A z \in {zone(c) : c \in clients} : \A i \in 1..d :
                  EnergyAt(a, {c \in S : zone(c) = z}, i) <= e.powerFc[z][i]}
        : S \in {T \in SUBSET clients : Cardinality(T) = K}}

\* _optimal_selection: the optimal solutions, {} when the model is infeasible
GreenSolutions(e, clients, utility, d, K, min_epochs) ==
    Optimal(GreenFeasible(e, clients, d, K, min_epochs), utility)

\* constraints of _brown_selection; pool is the list brown_clients, l the limit
BrownFeasible(e, pool, d, l, min_clients, min_epochs) ==
    UNION {
        {a \in [S -> [1..d -> 0..MaxLoad]] :
            /\ \A c \in S :
                  ClientAllocOk(e, c, d, a[c], batches_per_epoch(c) * min_epochs + 1,
                                batches_per_epoch(c) * max_epochs)
            /\ SeqSum([j \in 1..Len(pool) |->
                         IF pool[j] \in S
                         THEN SeqSum(a[pool[j]]) * energy_per_batch2(pool[j])
                         ELSE 0]) <= 2 * l}
        : S \in {T \in SUBSET Range(pool) :
                    SeqSum([j \in 1..Len(pool) |-> IF pool[j] \in T THEN 1 ELSE 0])
                        >= min_clients}}

\* _brown_selection: the optimal solutions, {} when the model is infeasible
BrownSolutions(e, pool, utility, d, l, min_clients, min_epochs) ==
    Optimal(BrownFeasible(e, pool, d, l, min_clients, min_epochs), utility)

\* the rows of the DataFrame a solution becomes: sorted by client
Rows(a, brown) ==
    LET idx == SortedSeq(DOMAIN a)
    IN [j \in 1..Len(idx) |-> [client |-> idx[j], alloc |-> a[idx[j]], brown |-> brown]]

\* pd.date_range(start = now + TIMESTEP_IN_MIN, periods = d)
Columns(now, d) == [i \in 1..d |-> now + TIMESTEP_IN_MIN * i]

---------------------------------------------------------------------------
(* Rationals <<num, den>> with den > 0, in lowest terms; NaN is numpy's nan *)
(* (np.mean of an empty list).                                             *)

NaN == <<0, 0>>
IsNaN(x) == x[2] = 0

RECURSIVE GCD(_, _)
GCD(a, b) == IF b = 0 THEN a ELSE GCD(b, a % b)

Abs(n) == IF n < 0 THEN -n ELSE n

Norm(n, d) ==
    LET g == GCD(Abs(n), d) IN IF g = 0 THEN <<0, 1>> ELSE <<n \div g, d \div g>>

\* x <= y for rationals; any comparison with nan is false
FracLeq(x, y) == ~IsNaN(x) /\ ~IsNaN(y) /\ x[1] * y[2] <= y[1] * x[2]

\* np.mean([c.participated_rounds for c in S])
Mean(pr, S) ==
    IF S = {} THEN NaN ELSE Norm(SetSum(pr, S), Cardinality(S))

---------------------------------------------------------------------------
(* The utility judges of fedzero/utility.py.  A weighting maps every client *)
(* of the judge's pool to a rational weight.                                *)

RECURSIVE IntPow(_, _)
IntPow(b, e) == IF e = 0 THEN 1 ELSE b * IntPow(b, e - 1)

\* x ** e for a rational x >= 0 and an integer e >= 0; x ** 0 is 1
FracPow(x, e) == Norm(IntPow(x[1], e), IntPow(x[2], e))

\* utility_judge.utility() of StaticJudge
StaticUtility == [c \in Clients |-> 1]

\* _calculate_participation, then the minimum over the pool without the
\* max(1, ...) around it
RawMinParticipation(pr) ==
    CHOOSE m \in {pr[c] : c \in Clients} : \A c \in Clients : m <= pr[c]

\* the maximum over the pool in place of the minimum
MaxParticipation(pr) ==
    CHOOSE m \in {pr[c] : c \in Clients} : \A c \in Clients : m >= pr[c]

\* min_participation = max(1, min(participation.values()))
MinParticipation(pr) ==
    Max2(1, CHOOSE m \in {pr[c] : c \in Clients} : \A c \in Clients : m <= pr[c])

\* ParticipationWeight with weight 0 in the ZeroDivisionError handler
ParticipationWeightZeroForNew(m, p, e) ==
    IF p = 0 THEN <<0, 1>> ELSE FracPow(Norm(m, p), e)

\* (min_participation / past_participation) ** weighting_exponent; the
\* division raises ZeroDivisionError when past_participation is 0, and the
\* handler sets the weight 1
ParticipationWeight(m, p, e) ==
    IF p = 0 THEN <<1, 1>> ELSE FracPow(Norm(m, p), e)

\* ParticipationJudge.utility
ParticipationWeights(pr, e) ==
    [c \in Clients |-> ParticipationWeight(MinParticipation(pr), pr[c], e)]

\* StatUtilityJudge.utility with weight 0 in the ZeroDivisionError handler
StatUtilityWeightsZeroRange(su) ==
    LET mn == CHOOSE m \in {su[c] : c \in Clients} : \A c \in Clients : m <= su[c]
        mx == CHOOSE m \in {su[c] : c \in Clients} : \A c \in Clients : m >= su[c]
    IN [c \in Clients |->
           IF mx - mn = 0 THEN <<0, 1>> ELSE Norm(su[c] - mn, mx - mn)]

\* StatUtilityJudge.utility: (u - min) / (max - min); the division raises
\* ZeroDivisionError when max = min, and the handler sets the weight 1
StatUtilityWeights(su) ==
    LET mn == CHOOSE m \in {su[c] : c \in Clients} : \A c \in Clients : m <= su[c]
        mx == CHOOSE m \in {su[c] : c \in Clients} : \A c \in Clients : m >= su[c]
    IN [c \in Clients |->
           IF mx - mn = 0 THEN <<1, 1>> ELSE Norm(su[c] - mn, mx - mn)]

\* no utility() call yet
NoWeighting == [judge |-> "none", w |-> [x \in Clients |-> <<0, 1>>]]

\* utility() of the judge the configuration c names
JudgeWeights(c, pr, su) ==
    CASE c.judge = "static" -> [x \in Clients |-> <<StaticUtility[x], 1>>]
      [] c.judge = "part" -> ParticipationWeights(pr, c.exponent)
      [] c.judge = "stat" -> StatUtilityWeights(su)

\* the record of a utility() call
WeightingOf(c, pr, su) == [judge |-> c.judge, w |-> JudgeWeights(c, pr, su)]

\* the weights as the objective's coefficients: all multiplied by the product
\* of their denominators, which leaves the optimal solutions the same
ScaledUtility(w) ==
    LET dens == [c \in Clients |-> w[c][2]]
        RECURSIVE Prod(_)
        Prod(S) == IF S = {} THEN 1
                   ELSE LET x == CHOOSE y \in S : TRUE IN dens[x] * Prod(S \ {x})
    IN [c \in Clients |-> w[c][1] * (Prod(Clients) \div w[c][2])]

---------------------------------------------------------------------------
(* FedZeroSelectionStrategy: constructor state *)

NoCycle == -1

FedZeroInit ==
    [excluded_clients |-> <<>>,
     cycle_active_clients |-> {},
     cycle_start |-> NoCycle,
     cycle_participation_mean |-> <<0, 1>>,
     rng_pos |-> 0]

TRANSITION_PERIOD_H == 12
CycleMinutes == 24 * 60
TransitionStart == (24 - TRANSITION_PERIOD_H) * 60

\* the blended value of the transition window: m minutes into the window,
\* stored + (current - stored) * (m * 60 / 3600 / TRANSITION_PERIOD_H)
Blend(stored, current, m) ==
    IF IsNaN(stored) \/ IsNaN(current) THEN NaN
    ELSE LET w == TRANSITION_PERIOD_H * 60
         IN Norm(stored[1] * current[2] * (w - m) + current[1] * stored[2] * m,
                 stored[2] * current[2] * w)

\* CycleUpdate that closes the cycle only after more than 24 hours
CycleUpdateLate(s, pr, now) ==
    IF s.cycle_start = NoCycle
    THEN [s |-> [s EXCEPT !.cycle_start = now],
          wallah |-> s.cycle_participation_mean]
    ELSE IF s.cycle_start + CycleMinutes < now
    THEN [s |-> [s EXCEPT !.cycle_start = now,
                          !.cycle_participation_mean = Mean(pr, s.cycle_active_clients),
                          !.cycle_active_clients = {}],
          wallah |-> s.cycle_participation_mean]
    ELSE IF s.cycle_start + TransitionStart <= now
    THEN [s |-> s,
          wallah |-> Blend(s.cycle_participation_mean,
                           Mean(pr, s.cycle_active_clients),
                           now - (s.cycle_start + TransitionStart))]
    ELSE [s |-> s, wallah |-> s.cycle_participation_mean]

\* select, the cycle bookkeeping: the strategy's state after it, and
\* the value (wallah) handed to the exclusion update
CycleUpdate(s, pr, now) ==
    IF s.cycle_start = NoCycle
    THEN [s |-> [s EXCEPT !.cycle_start = now],
          wallah |-> s.cycle_participation_mean]
    ELSE IF s.cycle_start + CycleMinutes <= now
    THEN [s |-> [s EXCEPT !.cycle_start = now,
                          !.cycle_participation_mean = Mean(pr, s.cycle_active_clients),
                          !.cycle_active_clients = {}],
          wallah |-> s.cycle_participation_mean]
    ELSE IF s.cycle_start + TransitionStart <= now
    THEN [s |-> s,
          wallah |-> Blend(s.cycle_participation_mean,
                           Mean(pr, s.cycle_active_clients),
                           now - (s.cycle_start + TransitionStart))]
    ELSE [s |-> s, wallah |-> s.cycle_participation_mean]

---------------------------------------------------------------------------
(* The exclusion update *)

\* the exclusion_factor property, in sixteenths; the constructor argument f is
\* in quarters (f = 4 is 1.0)
EffectiveExclusionFactor16(f) ==
    IF BROWN_CLIENTS_ALLOWANCE /\ BROWN_EXCLUSION_UPDATE
    THEN 4 * f - Min2(4, f)
    ELSE 4 * f

\* Client.participated_in_last_round(round_number)
ParticipatedInLastRound(lr, c, rn) == lr[c] = rn - 1

RECURSIVE SortedBy(_, _)
\* the values su[c], c in S, in increasing order (with repetitions)
SortedBy(su, S) ==
    IF S = {} THEN <<>>
    ELSE LET m == CHOOSE x \in S : \A y \in S : su[x] <= su[y]
         IN <<su[m]>> \o SortedBy(su, S \ {m})

\* v < np.quantile(values of su over S, q16 / 16)
BelowQuantile(v, su, S, q16) ==
    LET s == SortedBy(su, S)
        h == (Len(s) - 1) * q16
        j == h \div 16
        r == h % 16
        lo == s[j + 1]
        hi == IF j + 2 <= Len(s) THEN s[j + 2] ELSE s[j + 1]
    IN 16 * v < 16 * lo + r * (hi - lo)

\* v <= np.quantile(values of su over S, q16 / 16), linear interpolation
AtOrBelowQuantile(v, su, S, q16) ==
    LET s == SortedBy(su, S)
        h == (Len(s) - 1) * q16
        j == h \div 16
        r == h % 16
        lo == s[j + 1]
        hi == IF j + 2 <= Len(s) THEN s[j + 2] ELSE s[j + 1]
    IN 16 * v <= 16 * lo + r * (hi - lo)

\* Probability that takes participated_rounds without the reference value
ProbabilityNoReference(prc, wallah, alpha) ==
    IF prc > 0
    THEN IF alpha[1] <= alpha[2] * prc
         THEN Norm(alpha[1], alpha[2] * prc)
         ELSE <<1, 1>>
    ELSE <<1, 1>>

\* probability = min(alpha / (participated_rounds - wallah), 1) if the
\* difference is positive and 1 otherwise (also when wallah is nan: nan > 0
\* is false)
Probability(prc, wallah, alpha) ==
    IF IsNaN(wallah) THEN <<1, 1>>
    ELSE LET dn == prc * wallah[2] - wallah[1]      \* difference = dn / wallah[2]
         IN IF dn > 0
            THEN IF alpha[1] * wallah[2] <= alpha[2] * dn
                 THEN Norm(alpha[1] * wallah[2], alpha[2] * dn)
                 ELSE <<1, 1>>
            ELSE <<1, 1>>

\* self.rng.random() <= probability, the draw being u / RngDen
RngDen == 4
Reinstated(u, prc, wallah, alpha) ==
    FracLeq(<<u, RngDen>>, Probability(prc, wallah, alpha))

RemoveFirst(s, x) ==
    LET i == CHOOSE k \in 1..Len(s) : s[k] = x /\ \A m \in 1..(k - 1) : s[m] # x
    IN SubSeq(s, 1, i - 1) \o SubSeq(s, i + 1, Len(s))

RECURSIVE ReinstateLoop(_, _, _, _, _, _, _)
\* for i, client in enumerate(self.excluded_clients): the list iterator reads
\* position i of the list as it is now, and stops when i is past its end
\* log holds the lines the loop prints (line 209) and the draw behind each
ReinstateLoop(list, i, pos, pr, wallah, alpha, draws) ==
    IF i > Len(list) THEN [list |-> list, pos |-> pos, log |-> <<>>]
    ELSE LET client == list[i]
             success == Reinstated(draws[pos + 1], pr[client], wallah, alpha)
             line == [i |-> i - 1, client |-> client,
                      participated_rounds |-> pr[client],
                      probability |-> Probability(pr[client], wallah, alpha),
                      draw |-> draws[pos + 1], success |-> success]
             rest == IF success
                     THEN ReinstateLoop(RemoveFirst(list, client), i + 1, pos + 1,
                                        pr, wallah, alpha, draws)
                     ELSE ReinstateLoop(list, i + 1, pos + 1, pr, wallah, alpha, draws)
         IN [rest EXCEPT !.log = <<line>> \o @]

\* AddedClients that compares with < in place of <=
AddedClientsStrictlyBelow(c, participants, su, order) ==
    LET q16 == EffectiveExclusionFactor16(c.exclusion_factor)
    IN SelectSeq(order,
                 LAMBDA x : BelowQuantile(su[x], su, participants, q16))

\* the clients the first loop appends to excluded_clients, in the order the
\* set `participants` is iterated
AddedClients(c, participants, su, order) ==
    LET q16 == EffectiveExclusionFactor16(c.exclusion_factor)
    IN SelectSeq(order,
                 LAMBDA x : AtOrBelowQuantile(su[x], su, participants, q16))

\* _update_excluded_clients; order lists the set `participants` as iterated,
\* draws is the generator's stream, s.rng_pos the number of draws consumed
UpdateExcludedClients(s, c, clients, rn, wallah, pr, lr, su, order, draws) ==
    LET participants == {x \in clients : ParticipatedInLastRound(lr, x, rn)}
    IN IF participants = {} THEN s
       ELSE LET added == AddedClients(c, participants, su, order)
                loop == ReinstateLoop(s.excluded_clients \o added, 1, s.rng_pos,
                                      pr, wallah, c.alpha, draws)
            IN [s EXCEPT !.excluded_clients = loop.list, !.rng_pos = loop.pos]

\* what one exclusion update appends and prints
ExclusionTrace(s, c, clients, rn, wallah, pr, lr, su, order, draws) ==
    LET participants == {x \in clients : ParticipatedInLastRound(lr, x, rn)}
    IN IF participants = {} THEN [added |-> <<>>, log |-> <<>>]
       ELSE LET added == AddedClients(c, participants, su, order)
                loop == ReinstateLoop(s.excluded_clients \o added, 1, s.rng_pos,
                                      pr, wallah, c.alpha, draws)
            IN [added |-> added, log |-> loop.log]

---------------------------------------------------------------------------
(* FedZeroSelectionStrategy.select: the horizon search *)

NoResult == [kind |-> "init", exc |-> "", rows |-> <<>>, cols |-> <<>>, flagged |-> {}]
NoneResult == [kind |-> "none", exc |-> "", rows |-> <<>>, cols |-> <<>>, flagged |-> {}]
Continue == [kind |-> "continue", exc |-> "", rows |-> <<>>, cols |-> <<>>, flagged |-> {}]
Raise(exc, flagged) ==
    [kind |-> "raise", exc |-> exc, rows |-> <<>>, cols |-> <<>>, flagged |-> flagged]
Table(rows, cols, flagged) ==
    [kind |-> "table", exc |-> "", rows |-> rows, cols |-> cols, flagged |-> flagged]

BrownWindow(rn) ==
    /\ ENABLE_BROWN_CLIENTS_DURING_TIME_WINDOW
    /\ TIME_WINDOW_LOWER_BOUND <= rn
    /\ rn <= TIME_WINDOW_UPPER_BOUND

\* BrownLimit with the percentage one too large
BrownLimitLoose(green) ==
    RoundHalfEven(Energy2(green) * (BROWN_CLIENTS_BUDGET_PERCENTAGE + 1), 2)

\* limit = round(energy.sum() * BROWN_CLIENTS_BUDGET_PERCENTAGE); the green
\* energy is given in half units, the limit is in whole units
BrownLimit(green) == RoundHalfEven(Energy2(green) * BROWN_CLIENTS_BUDGET_PERCENTAGE, 2)

\* BrownClients that extends the list with filtered_clients, the green
\* solution's clients included
BrownClientsWithGreen(filtered, capacity, excluded, green) ==
    SortedSeq({c \in Clients : c \notin capacity /\ c \notin Range(excluded)})
        \o SortedSeq(filtered)

\* BrownClients that leaves the excluded clients in the list
BrownClientsWithExcluded(filtered, capacity, excluded, green) ==
    SortedSeq({c \in Clients : c \notin capacity})
        \o SortedSeq({c \in filtered : c \notin DOMAIN green})

\* the list brown_clients: the clients outside the capacity-filtered list that
\* are not excluded, then the unused green clients
BrownClients(filtered, capacity, excluded, green) ==
    SortedSeq({c \in Clients : c \notin capacity /\ c \notin Range(excluded)})
        \o SortedSeq({c \in filtered : c \notin DOMAIN green})

\* min(len(brown_clients), max(1, clients_per_round * BROWN_CLIENTS_NUMBER_PERCENTAGE))
MinBrownClients(pool, K) ==
    Min2(Len(pool), Max2(1, K * BROWN_CLIENTS_NUMBER_PERCENTAGE))

\* int(brown_energy_sum) <= limit * 1.01, the brown energy in half units
BudgetOk(brownEnergy2, limit) == 100 * (brownEnergy2 \div 2) <= 101 * limit

\* AfterGreen that returns the green solution on its own when the brown model
\* is infeasible or selects too few clients
AfterGreenAlone(e, c, green, filtered, capacity, excluded, utility, d) ==
    IF ~BrownWindow(e.round_number)
    THEN {Table(Rows(green, FALSE), Columns(e.now, d), {})}
    ELSE LET limit == BrownLimit(green)
             pool == BrownClients(filtered, capacity, excluded, green)
             minBrown == MinBrownClients(pool, c.K)
         IN IF Len(pool) = 0
            THEN {Raise("TypeError", {})}
            ELSE LET sols == BrownSolutions(e, pool, utility, d, limit, minBrown,
                                            c.min_epochs)
                 IN IF sols = {}
                    THEN {Table(Rows(green, FALSE), Columns(e.now, d), {})}
                    ELSE {IF Cardinality(DOMAIN b) < minBrown
                          THEN Table(Rows(green, FALSE), Columns(e.now, d), {})
                          ELSE IF ~BudgetOk(Energy2(b), limit)
                          THEN Raise("RuntimeError", DOMAIN b)
                          ELSE Table(Rows(green, FALSE) \o Rows(b, TRUE),
                                     Columns(e.now, d), DOMAIN b)
                          : b \in sols}

\* the body of the loop over d once the green model is solved (lines 153-186):
\* a table, an exception, or Continue for the next horizon
AfterGreen(e, c, green, filtered, capacity, excluded, utility, d) ==
    IF ~BrownWindow(e.round_number)
    THEN {Table(Rows(green, FALSE), Columns(e.now, d), {})}
    ELSE LET limit == BrownLimit(green)
             pool == BrownClients(filtered, capacity, excluded, green)
             minBrown == MinBrownClients(pool, c.K)
         IN IF Len(pool) = 0
            \* _brown_selection builds pd.MultiIndex.from_tuples(m_alloc.keys()) from
            \* an empty dictionary: TypeError("Cannot infer number of levels from
            \* empty list")
            THEN {Raise("TypeError", {})}
            ELSE LET sols == BrownSolutions(e, pool, utility, d, limit, minBrown,
                                            c.min_epochs)
                 IN IF sols = {} THEN {Continue}
                    ELSE {IF Cardinality(DOMAIN b) < minBrown THEN Continue
                          ELSE IF ~BudgetOk(Energy2(b), limit)
                          THEN Raise("RuntimeError", DOMAIN b)
                          ELSE Table(Rows(green, FALSE) \o Rows(b, TRUE),
                                     Columns(e.now, d), DOMAIN b)
                          : b \in sols}

\* one pass of the loop over d: the outcomes of horizon d
Horizon(e, c, clients, excluded, utility, d) ==
    LET filtered == FilterForecast(e, clients, d, c.min_epochs)
        capacity == FilterCapacity(e, clients, d, c.min_epochs)
    IN IF Cardinality(filtered) < c.K THEN {Continue}
       ELSE LET sols == GreenSolutions(e, filtered, utility, d, c.K, c.min_epochs)
            IN IF sols = {} THEN {Continue}
               ELSE UNION {AfterGreen(e, c, g, filtered, capacity, excluded, utility, d)
                           : g \in sols}

\* the horizons in the order the loop tries them
HorizonOrder == [i \in 1..MaxD |-> i]

RECURSIVE SearchFrom(_, _, _, _, _, _)
\* for d in range(1, MAX_ROUND_IN_MIN / TIMESTEP_IN_MIN + 1): ... return None
SearchFrom(e, c, clients, excluded, utility, i) ==
    IF i > Len(HorizonOrder) THEN {NoneResult}
    ELSE LET outs == Horizon(e, c, clients, excluded, utility, HorizonOrder[i])
         IN (outs \ {Continue}) \cup
            (IF Continue \in outs
             THEN SearchFrom(e, c, clients, excluded, utility, i + 1)
             ELSE {})

\* PreSelect whose test of alpha guards the reinstatement loop only: the
\* clients at or below the quantile are excluded whatever alpha is
PreSelectExcluding(s, c, e, pr, lr, su, order, draws) ==
    LET cyc == CycleUpdate(s, pr, e.now)
        clients == FilterCurrent(e)
        s1 == [cyc.s EXCEPT !.cycle_active_clients = @ \cup clients]
        participants == {x \in clients : ParticipatedInLastRound(lr, x, e.round_number)}
        s2 == IF c.alpha[1] # 0
              THEN UpdateExcludedClients(s1, c, clients, e.round_number, cyc.wallah,
                                         pr, lr, su, order, draws)
              ELSE [s1 EXCEPT !.excluded_clients =
                                  @ \o AddedClients(c, participants, su,
                                                    SortedSeq(participants))]
        tr == IF c.alpha[1] # 0
              THEN ExclusionTrace(s1, c, clients, e.round_number, cyc.wallah,
                                  pr, lr, su, order, draws)
              ELSE [added |-> <<>>, log |-> <<>>]
    IN [s |-> s2,
        wallah |-> cyc.wallah,
        clients |-> {x \in clients : x \notin Range(s2.excluded_clients)},
        added |-> tr.added,
        log |-> tr.log]

\* select up to the loop: the cycle bookkeeping, the union into the cycle's
\* active clients, the exclusion update and the removal of the excluded clients
PreSelect(s, c, e, pr, lr, su, order, draws) ==
    LET cyc == CycleUpdate(s, pr, e.now)
        clients == FilterCurrent(e)
        s1 == [cyc.s EXCEPT !.cycle_active_clients = @ \cup clients]
        s2 == IF c.alpha[1] # 0
              THEN UpdateExcludedClients(s1, c, clients, e.round_number, cyc.wallah,
                                         pr, lr, su, order, draws)
              ELSE s1
        tr == IF c.alpha[1] # 0
              THEN ExclusionTrace(s1, c, clients, e.round_number, cyc.wallah,
                                  pr, lr, su, order, draws)
              ELSE [added |-> <<>>, log |-> <<>>]
    IN [s |-> s2,
        wallah |-> cyc.wallah,
        clients |-> IF c.alpha[1] # 0
                    THEN {x \in clients : x \notin Range(s2.excluded_clients)}
                    ELSE clients,
        added |-> tr.added,
        log |-> tr.log]

\* the results select can end with, given the state PreSelect leaves
SelectResults(pre, c, e) ==
    SearchFrom(e, c, pre.clients, pre.s.excluded_clients,
               ScaledUtility(JudgeWeights(c, participated_rounds, stat_util)), 1)

---------------------------------------------------------------------------
(* Inputs of a select call *)

LoadVals == {0, MaxLoad}
PowerVals == {0, 3}
RoundNumbers == {TIME_WINDOW_LOWER_BOUND, TIME_WINDOW_UPPER_BOUND,
                 TIME_WINDOW_UPPER_BOUND + 1}
StatVals == {1, 2}

NoEnv ==
    [now |-> 0, round_number |-> 0,
     powerActual |-> [z \in Zones |-> 0], loadActual |-> [c \in Clients |-> 0],
     powerFc |-> [z \in Zones |-> [i \in 1..MaxD |-> 0]],
     loadFc |-> [c \in Clients |-> [i \in 1..MaxD |-> 0]]]

\* provider data whose forecast for the current timestep is the actual value
EnvOf(now, rn, pfc, lfc) ==
    [now |-> now, round_number |-> rn,
     powerActual |-> [z \in Zones |-> pfc[z][1]],
     loadActual |-> [c \in Clients |-> lfc[c][1]],
     powerFc |-> pfc, loadFc |-> lfc]

Envs(nows, rns) ==
    {EnvOf(now, rn, pfc, lfc) :
        now \in nows, rn \in rns,
        pfc \in [Zones -> [1..MaxD -> PowerVals]],
        lfc \in [Clients -> [1..MaxD -> LoadVals]]}

RECURSIVE Perms(_)
\* the orders in which a set can be iterated
Perms(S) ==
    IF S = {} THEN {<<>>}
    ELSE UNION {{<<x>> \o p : p \in Perms(S \ {x})} : x \in S}

\* the sequences of k distinct elements of S, in every order
Arrangements(S, k) ==
    UNION {Perms(T) : T \in {U \in SUBSET S : Cardinality(U) = k}}

---------------------------------------------------------------------------
(* FedZeroSelectionStrategy.select *)

\* the draws tried, as numerators over RngDen: 0, 1/2 and the largest
DrawVals == {0, RngDen \div 2, RngDen - 1}
\* the uniform draws a call may still need beyond those of the stream
DrawExtensions(c, need) ==
    IF c.alpha[1] = 0 THEN {<<>>}
    ELSE [1..(IF need > Len(stream) THEN need - Len(stream) ELSE 0) -> DrawVals]

\* the most draws the exclusion update of strategy s can consume in call e
DrawsNeeded(s, e) ==
    s.rng_pos + Len(s.excluded_clients)
        + Cardinality({x \in FilterCurrent(e) :
                          ParticipatedInLastRound(last_round, x, e.round_number)})

\* the orders in which the set `participants` of the exclusion update may be iterated
ParticipantOrders(c, e) ==
    IF c.alpha[1] = 0 THEN {<<>>}
    ELSE Perms({x \in FilterCurrent(e) :
                   ParticipatedInLastRound(last_round, x, e.round_number)})

\* BrownFlags that sets the flag for every row of the returned table
BrownFlagsAllRows(flags, r) ==
    [x \in Clients |->
        flags[x] \/ \E j \in 1..Len(r.rows) : r.rows[j].client = x]

\* index.is_brown = True for every row of the brown solution
BrownFlags(flags, r) == [x \in Clients |-> flags[x] \/ x \in r.flagged]

\* the locals of a select call that the properties read: now, the value
\* handed to the exclusion update, the candidates left for the horizon
\* search, the clients the update appended and the lines it printed
NoTrace ==
    [called |-> FALSE, now |-> 0, wallah |-> <<0, 1>>, clients |-> {},
     added |-> <<>>, log |-> <<>>]
TraceOf(pre, e) ==
    [called |-> TRUE, now |-> e.now, wallah |-> pre.wallah, clients |-> pre.clients,
     added |-> pre.added, log |-> pre.log]

\* select with the iteration order of `participants` and the generator's draws fixed
FedZeroSelectWith(e, order, draws) ==
    /\ LET pre == PreSelect(fz, cfg, e, participated_rounds, last_round, stat_util,
                            order, draws)
       IN \E r \in SelectResults(pre, cfg, e) :
            /\ fz' = pre.s
            /\ result' = r
            /\ is_brown' = BrownFlags(is_brown, r)
            /\ trace' = TraceOf(pre, e)
    /\ weighting' = WeightingOf(cfg, participated_rounds, stat_util)
    /\ env' = e
    /\ op' = "fedzero"
    /\ calls' = calls + 1
    /\ UNCHANGED <<cfg, participated_rounds, last_round, stat_util, oort>>

\* the draws a call of strategy s does not consume are left undetermined:
\* of the extensions that differ only there, the one with zeros stands for all
UnusedDrawsZero(s, e, order, draws) ==
    LET used == PreSelect(s, cfg, e, participated_rounds, last_round, stat_util,
                          order, draws).s.rng_pos
    IN \A i \in 1..Len(draws) : (i > used /\ i > Len(stream)) => draws[i] = 0

FedZeroSelect(e) ==
    /\ \E order \in ParticipantOrders(cfg, e),
          ext \in DrawExtensions(cfg, DrawsNeeded(fz, e)) :
         /\ UnusedDrawsZero(fz, e, order, stream \o ext)
         /\ FedZeroSelectWith(e, order, stream \o ext)
         /\ stream' = SubSeq(stream \o ext, 1, Max2(Len(stream), fz'.rng_pos))
    /\ UNCHANGED fz2

\* two strategies built with the same seed get the same call: the second
\* instance iterates `participants` in an order of its own
TwinSelect(e) ==
    \E order \in ParticipantOrders(cfg, e), order2 \in ParticipantOrders(cfg, e),
       ext \in DrawExtensions(cfg, Max2(DrawsNeeded(fz, e), DrawsNeeded(fz2, e))) :
         /\ \/ UnusedDrawsZero(fz, e, order, stream \o ext)
            \/ UnusedDrawsZero(fz2, e, order2, stream \o ext)
         /\ FedZeroSelectWith(e, order, stream \o ext)
         /\ fz2' = PreSelect(fz2, cfg, e, participated_rounds, last_round, stat_util,
                             order2, stream \o ext).s
         /\ stream' = SubSeq(stream \o ext, 1,
                             Max2(Len(stream), Max2(fz'.rng_pos, fz2'.rng_pos)))

---------------------------------------------------------------------------
(* RandomSelectionStrategy.select *)

\* the clients the random strategy draws from
RandomCandidates(c, e) ==
    IF c.use_forecasts
    THEN FilterForecast(e, FilterCurrent(e), MaxD, c.min_epochs)
    ELSE FilterCurrent(e)

\* pd.DataFrame(1, index=selected_clients, columns=[now + TIMESTEP_IN_MIN])
UnitTable(index, now) ==
    Table([j \in 1..Len(index) |-> [client |-> index[j], alloc |-> <<1>>, brown |-> FALSE]],
          <<now + TIMESTEP_IN_MIN>>, {})

\* RandomResults with len(clients) <= clients_per_round in place of <
RandomResultsOffByOne(c, e) ==
    LET clients == RandomCandidates(c, e)
    IN IF Cardinality(clients) <= c.K THEN {NoneResult}
       ELSE {UnitTable(sel, e.now) : sel \in Arrangements(clients, c.K)}

\* the results of RandomSelectionStrategy.select; rng.choice without replacement
\* returns k distinct candidates in some order
RandomResults(c, e) ==
    LET clients == RandomCandidates(c, e)
    IN IF Cardinality(clients) < c.K THEN {NoneResult}
       ELSE {UnitTable(sel, e.now) : sel \in Arrangements(clients, c.K)}

RandomSelect(e) ==
    /\ \E r \in RandomResults(cfg, e) : result' = r
    /\ env' = e
    /\ op' = "random"
    /\ calls' = calls + 1
    /\ UNCHANGED <<cfg, participated_rounds, last_round, stat_util, is_brown,
                   fz, fz2, stream, oort, weighting, trace>>

---------------------------------------------------------------------------
(* OortSelectionStrategy.select; the OortSelector is fedzero/oort.py *)

\* arms is totalArms, updates the update each client got in the last call,
\* selections the number of select_participant calls, events the calls the
\* strategy has made on the selector, in the order it made them
OortInit ==
    [arms |-> {}, updates |-> [c \in Clients |-> "none"], selections |-> 0,
     events |-> <<>>]

\* OortSelector.select_participant(k, feasible_clients): k of the feasible names
OortSelectParticipant(k, feasible) == {T \in SUBSET feasible : Cardinality(T) = k}

\* OortUpdateKind that never reports a utility
OortUpdateKindDuration(lr, c, rn) == "duration"

\* update_client_util for a client that participated in the last round,
\* update_duration for the others
OortUpdateKind(lr, c, rn) ==
    IF ParticipatedInLastRound(lr, c, rn) THEN "utility" ELSE "duration"

\* the register_client calls of a select call: one per client of
\* get_clients() when totalArms is empty
OortRegistrations(o) ==
    IF o.arms = {}
    THEN [i \in 1..NumClients |-> [kind |-> "register", client |-> i]]
    ELSE <<>>

\* the calls of the loop over the feasible clients, then select_participant
OortUpdates(clients, lr, rn) ==
    LET order == SortedSeq(clients)
    IN [i \in 1..Len(order) |->
           [kind |-> OortUpdateKind(lr, order[i], rn), client |-> order[i]]]
       \o <<[kind |-> "select", client |-> 0]>>

OortSelect(e) ==
    /\ LET arms == IF oort.arms = {} THEN Clients ELSE oort.arms
           clients == FilterCurrent(e)
       IN IF Cardinality(clients) < cfg.K
          THEN /\ result' = NoneResult
               /\ oort' = [oort EXCEPT !.arms = arms,
                                       !.updates = [c \in Clients |-> "none"],
                                       !.events = @ \o OortRegistrations(oort)]
          ELSE \E names \in OortSelectParticipant(cfg.K, clients) :
                 /\ result' = UnitTable(SortedSeq({c \in Clients : c \in names}), e.now)
                 /\ oort' = [arms |-> arms,
                             updates |-> [c \in Clients |->
                                 IF c \notin clients THEN "none"
                                 ELSE OortUpdateKind(last_round, c, e.round_number)],
                             selections |-> oort.selections + 1,
                             events |-> oort.events \o OortRegistrations(oort)
                                           \o OortUpdates(clients, last_round,
                                                          e.round_number)]
    /\ env' = e
    /\ op' = "oort"
    /\ calls' = calls + 1
    /\ UNCHANGED <<cfg, participated_rounds, last_round, stat_util, is_brown,
                   fz, fz2, stream, weighting, trace>>

---------------------------------------------------------------------------
(* The round driver: it runs the round a table describes and records the   *)
(* participation on the clients; the brown flag is reset every round.      *)

ExecuteRound ==
    /\ result.kind = "table"
    /\ LET P == {result.rows[j].client : j \in 1..Len(result.rows)}
       IN /\ participated_rounds' =
                [c \in Clients |-> participated_rounds[c] + IF c \in P THEN 1 ELSE 0]
          /\ last_round' =
                [c \in Clients |-> IF c \in P THEN env.round_number ELSE last_round[c]]
          /\ \E u \in [P -> StatVals] :
                stat_util' = [c \in Clients |-> IF c \in P THEN u[c] ELSE stat_util[c]]
    /\ is_brown' = [c \in Clients |-> FALSE]
    /\ result' = NoResult
    /\ env' = NoEnv
    /\ op' = "driver"
    /\ UNCHANGED <<cfg, fz, fz2, stream, oort, calls, weighting, trace>>

---------------------------------------------------------------------------
(* The specification: strategies built with every configuration, fresh     *)
(* clients, select calls of the three strategies and the driver.           *)

Configs ==
    [K : 1..MaxK, min_epochs : {0, 1}, use_forecasts : BOOLEAN,
     alpha : {<<0, 1>>}, exclusion_factor : {4}, judge : {"static"}, exponent : {0}]

InitWith(configs) ==
    /\ cfg \in configs
    /\ env = NoEnv
    /\ result = NoResult
    /\ op = "init"
    /\ participated_rounds = [c \in Clients |-> 0]
    /\ last_round = [c \in Clients |-> -1]
    /\ stat_util = [c \in Clients |-> 1]
    /\ is_brown = [c \in Clients |-> FALSE]
    /\ fz = FedZeroInit
    /\ fz2 = FedZeroInit
    /\ stream = <<>>
    /\ oort = OortInit
    /\ calls = 0
    /\ weighting = NoWeighting
    /\ trace = NoTrace

Init == InitWith(Configs)

FedZeroCall == calls < MaxCalls /\ \E e \in Envs({0}, RoundNumbers) : FedZeroSelect(e)
RandomCall == calls < MaxCalls /\ \E e \in Envs({0}, RoundNumbers) : RandomSelect(e)
OortCall == calls < MaxCalls /\ \E e \in Envs({0}, RoundNumbers) : OortSelect(e)

Next ==
    \/ FedZeroCall
    \/ RandomCall
    \/ OortCall
    \/ ExecuteRound

Spec == Init /\ [][Next]_vars

---------------------------------------------------------------------------
(* The specification of two FedZero strategies built with the same seed:   *)
(* both get every call, with the fairness mechanism on; the driver runs    *)
(* the rounds.                                                             *)

MaxTwinCalls == 2

\* calls in which every zone has power and the clients of A have capacity
SteadyEnvs(now, rn) ==
    {EnvOf(now, rn, [z \in Zones |-> [i \in 1..MaxD |-> 2]],
           [c \in Clients |-> [i \in 1..MaxD |-> IF c \in A THEN MaxLoad ELSE 0]])
        : A \in SUBSET Clients}

ExclConfigs ==
    [K : 1..MaxK, min_epochs : {1}, use_forecasts : {FALSE},
     alpha : {<<1, 1>>}, exclusion_factor : {4}, judge : {"static"}, exponent : {0}]

InitExcl == InitWith(ExclConfigs)

TwinCall ==
    /\ calls < MaxTwinCalls
    /\ \E e \in SteadyEnvs(calls * 60, calls + 1) : TwinSelect(e)

NextExcl ==
    \/ TwinCall
    \/ ExecuteRound

SpecExcl == InitExcl /\ [][NextExcl]_vars

---------------------------------------------------------------------------
(* The specification of the exclusion cycle: one FedZero strategy, with    *)
(* the fairness mechanism on or off, called at times that never decrease    *)
(* and span more than one cycle of 24 hours; the driver runs the rounds.    *)

MaxCycleCalls == 3
MaxSixHours == 4

\* the times of the calls: every six hours
CycleNows == {360 * k : k \in 0..MaxSixHours}

\* calls in which every zone has power and no client, clients 1 and 3, or
\* every client has capacity
CycleEnvs(now, rn) ==
    {EnvOf(now, rn, [z \in Zones |-> [i \in 1..MaxD |-> 2]],
           [c \in Clients |-> [i \in 1..MaxD |-> IF c \in A THEN MaxLoad ELSE 0]])
        : A \in {{}, {1, 3}, Clients}}

CycleConfigs ==
    [K : {1}, min_epochs : {1}, use_forecasts : {FALSE},
     alpha : {<<0, 1>>, <<1, 1>>}, exclusion_factor : {4},
     judge : {"static"}, exponent : {0}]

InitCycle == InitWith(CycleConfigs)

CycleCall ==
    /\ calls < MaxCycleCalls
    /\ \E now \in CycleNows :
          /\ now >= trace.now
          /\ \E e \in CycleEnvs(now, calls + 1) : FedZeroSelect(e)

NextCycle ==
    \/ CycleCall
    \/ ExecuteRound

SpecCycle == InitCycle /\ [][NextCycle]_vars

---------------------------------------------------------------------------
(* The specification of the driver that retries: one FedZero strategy with *)
(* the fairness mechanism on; the driver calls select, runs the round when *)
(* a table is returned, and calls select again with the same round number  *)
(* when None is returned.                                                  *)

MaxRetryCalls == 3

\* the round the driver is in: the one after the last round that ran
CurrentRound ==
    LET last == CHOOSE r \in {last_round[c] : c \in Clients} :
                   \A c \in Clients : last_round[c] <= r
    IN Max2(1, last + 1)

\* calls in which zone 2 has power and zone 1 has none, and the clients 1
\* and 3 or every client have capacity
RetryEnvs(now, rn) ==
    {EnvOf(now, rn, [z \in Zones |-> [i \in 1..MaxD |-> IF z = 2 THEN 2 ELSE 0]],
           [c \in Clients |-> [i \in 1..MaxD |-> IF c \in A THEN MaxLoad ELSE 0]])
        : A \in {{1, 3}, Clients}}

RetryConfigs ==
    [K : {1}, min_epochs : {1}, use_forecasts : {FALSE},
     alpha : {<<1, 2>>, <<1, 1>>}, exclusion_factor : {4},
     judge : {"static"}, exponent : {0}]

InitRetry == InitWith(RetryConfigs)

RetryCall ==
    /\ calls < MaxRetryCalls
    /\ result.kind \in {"init", "none"}
    /\ \E e \in RetryEnvs(calls * TIMESTEP_IN_MIN, CurrentRound) : FedZeroSelect(e)

NextRetry ==
    \/ RetryCall
    \/ ExecuteRound

SpecRetry == InitRetry /\ [][NextRetry]_vars

---------------------------------------------------------------------------
(* The specification of the Oort strategy under the driver: the driver     *)
(* calls select, runs the round when a table is returned and calls select  *)
(* again when None is returned.                                            *)

MaxOortCalls == 3

OortConfigs ==
    [K : 1..MaxK, min_epochs : {1}, use_forecasts : {FALSE},
     alpha : {<<0, 1>>}, exclusion_factor : {4}, judge : {"static"}, exponent : {0}]

InitOort == InitWith(OortConfigs)

OortDriverCall ==
    /\ calls < MaxOortCalls
    /\ result.kind \in {"init", "none"}
    /\ \E e \in SteadyEnvs(calls * TIMESTEP_IN_MIN, CurrentRound) : OortSelect(e)

NextOort ==
    \/ OortDriverCall
    \/ ExecuteRound

SpecOort == InitOort /\ [][NextOort]_vars

---------------------------------------------------------------------------
(* The specification of the judges: a judge of every kind over clients     *)
(* with every participation count and statistical utility up to the        *)
(* bounds; utility() is called on its own and by the FedZero select.       *)

MaxPart == 2
MaxStat == 2
MaxExp == 2

JudgeConfigs ==
    {c \in [K : 1..MaxK, min_epochs : {1}, use_forecasts : {FALSE},
            alpha : {<<0, 1>>}, exclusion_factor : {4},
            judge : {"static", "part", "stat"}, exponent : 0..MaxExp] :
        c.judge = "part" \/ c.exponent = 0}

InitJudge ==
    /\ cfg \in JudgeConfigs
    /\ participated_rounds \in [Clients -> 0..MaxPart]
    /\ stat_util \in [Clients -> 0..MaxStat]
    /\ cfg.judge # "part" => participated_rounds = [c \in Clients |-> 0]
    /\ cfg.judge # "stat" => stat_util = [c \in Clients |-> 1]
    /\ last_round = [c \in Clients |-> IF participated_rounds[c] = 0 THEN -1 ELSE 0]
    /\ env = NoEnv
    /\ result = NoResult
    /\ op = "init"
    /\ is_brown = [c \in Clients |-> FALSE]
    /\ fz = FedZeroInit
    /\ fz2 = FedZeroInit
    /\ stream = <<>>
    /\ oort = OortInit
    /\ calls = 0
    /\ weighting = NoWeighting
    /\ trace = NoTrace

\* utility_judge.utility()
JudgeCall ==
    /\ weighting' = WeightingOf(cfg, participated_rounds, stat_util)
    /\ op' = "judge"
    /\ UNCHANGED <<cfg, env, result, participated_rounds, last_round, stat_util,
                   is_brown, fz, fz2, stream, oort, calls, trace>>

JudgeSelect ==
    /\ calls < MaxCalls
    /\ \E rn \in {TIME_WINDOW_LOWER_BOUND, TIME_WINDOW_UPPER_BOUND + 1} :
          \E e \in SteadyEnvs(0, rn) : FedZeroSelect(e)

NextJudge ==
    \/ JudgeCall
    \/ JudgeSelect

SpecJudge == InitJudge /\ [][NextJudge]_vars

---------------------------------------------------------------------------
(* Properties.  What they read of a returned table. *)

SelectOps == {"fedzero", "random", "oort"}
IsTable == result.kind = "table"
RowSet == 1..Len(result.rows)
GreenRowSet == {j \in RowSet : ~result.rows[j].brown}
BrownRowSet == {j \in RowSet : result.rows[j].brown}
RowTotal(j) == SeqSum(result.rows[j].alloc)
RowEnergy2(j) == RowTotal(j) * energy_per_batch2(result.rows[j].client)
\* the green part of the returned table as a solution of the green model
ReturnedGreen ==
    [c \in {result.rows[j].client : j \in GreenRowSet} |->
        result.rows[CHOOSE j \in GreenRowSet : result.rows[j].client = c].alloc]
\* the candidates the horizon search of the last FedZero call started from
SearchCandidates ==
    IF cfg.alpha[1] # 0
    THEN FilterCurrent(env) \ Range(fz.excluded_clients)
    ELSE FilterCurrent(env)

---------------------------------------------------------------------------
(* C1 *)

C1_Utility == ScaledUtility(JudgeWeights(cfg, participated_rounds, stat_util))
C1_Filtered(d) == FilterForecast(env, SearchCandidates, d, cfg.min_epochs)
C1_GreenSolutions(d) ==
    GreenSolutions(env, C1_Filtered(d), C1_Utility, d, cfg.K, cfg.min_epochs)
\* (iii): outside the brown window, or the brown model over the pool of green
\* solution g has a solution with the minimum number of clients
C1_BrownAccepted(g, d) ==
    \/ ~BrownWindow(env.round_number)
    \/ LET pool == BrownClients(C1_Filtered(d),
                                FilterCapacity(env, SearchCandidates, d, cfg.min_epochs),
                                fz.excluded_clients, g)
           minBrown == MinBrownClients(pool, cfg.K)
       IN \E b \in BrownSolutions(env, pool, C1_Utility, d, BrownLimit(g), minBrown,
                                  cfg.min_epochs) :
             Cardinality(DOMAIN b) >= minBrown
\* horizon d can fail: (i), (ii) or (iii) fails for a solution the solver may return
C1_MayFail(d) ==
    \/ Cardinality(C1_Filtered(d)) < cfg.K
    \/ C1_GreenSolutions(d) = {}
    \/ \E g \in C1_GreenSolutions(d) : ~C1_BrownAccepted(g, d)
\* the returned table is an outcome of horizon d that meets (i), (ii) and (iii)
C1_SucceedsAt(d) ==
    /\ Cardinality(C1_Filtered(d)) >= cfg.K
    /\ ReturnedGreen \in C1_GreenSolutions(d)
    /\ C1_BrownAccepted(ReturnedGreen, d)

\* the horizons are searched in increasing order: a table of d columns is an
\* outcome of horizon d, every shorter horizon failed, and None means that
\* every horizon failed
C1_HorizonOrder ==
    op = "fedzero" =>
        /\ IsTable =>
              LET d == Len(result.cols)
              IN /\ d \in 1..MaxD
                 /\ \A j \in RowSet : Len(result.rows[j].alloc) = d
                 /\ C1_SucceedsAt(d)
                 /\ \A k \in 1..(d - 1) : C1_MayFail(k)
        /\ result.kind = "none" => \A k \in 1..MaxD : C1_MayFail(k)

\* C1: select tries the horizons d = 1, 2, ... in increasing order and returns
\* the allocation of the smallest d for which at least K candidates pass the
\* forecast filter, the green model is feasible and, inside the brown window,
\* the brown extension is accepted; the table spans exactly d columns; if
\* there is no such d, select returns None, and it raises nothing.
C1_FirstFeasibleHorizonNoRaise ==
    /\ op = "fedzero" => result.kind \in {"table", "none"}
    /\ C1_HorizonOrder

---------------------------------------------------------------------------
(* C2 *)

\* C2: whenever a strategy's select returns a table, no participant appears in
\* more than one row (brown rows are pairwise distinct and disjoint from the
\* green rows), every column is a timestep in (now, now + MAX_ROUND_IN_MIN],
\* and the first column is now + TIMESTEP_IN_MIN.
C2_TableWellFormed ==
    (op \in SelectOps /\ IsTable) =>
        /\ \A i \in RowSet : \A j \in RowSet :
              i # j => result.rows[i].client # result.rows[j].client
        /\ \A i \in BrownRowSet : \A j \in GreenRowSet :
              result.rows[i].client # result.rows[j].client
        /\ Len(result.cols) >= 1
        /\ result.cols[1] = env.now + TIMESTEP_IN_MIN
        /\ \A i \in 1..Len(result.cols) :
              /\ result.cols[i] > env.now
              /\ result.cols[i] <= env.now + MAX_ROUND_IN_MIN

C2_Witness ==
    /\ op = "fedzero" /\ IsTable
    /\ BrownRowSet # {} /\ GreenRowSet # {}
    /\ Len(result.cols) >= 2

---------------------------------------------------------------------------
(* C3 *)

\* C3: outside the brown window, with min_epochs > 0, a table returned by the
\* FedZero select has exactly K rows, each with a nonzero allocation.
C3_ExactlyKGreen ==
    (/\ op = "fedzero" /\ IsTable
     /\ ~BrownWindow(env.round_number)
     /\ cfg.min_epochs > 0) =>
        /\ Len(result.rows) = cfg.K
        /\ Cardinality({result.rows[j].client : j \in RowSet}) = cfg.K
        /\ \A j \in RowSet : RowTotal(j) > 0

C3_Witness ==
    /\ op = "fedzero" /\ IsTable
    /\ ~BrownWindow(env.round_number)
    /\ cfg.min_epochs > 0
    /\ cfg.K >= 2
    /\ Cardinality(FilterCurrent(env)) > cfg.K

---------------------------------------------------------------------------
(* C4 *)

\* C4: in every table the FedZero select returns, the total allocation of each
\* row, green or brown, lies between min_epochs * batches_per_epoch and
\* max_epochs * batches_per_epoch of the row's participant.
C4_TotalWithinEpochs ==
    (op = "fedzero" /\ IsTable) =>
        \A j \in RowSet :
            /\ RowTotal(j) >= cfg.min_epochs * batches_per_epoch(result.rows[j].client)
            /\ RowTotal(j) <= max_epochs * batches_per_epoch(result.rows[j].client)

C4_Witness ==
    /\ op = "fedzero" /\ IsTable
    /\ BrownRowSet # {} /\ GreenRowSet # {}
    /\ \E j \in GreenRowSet :
          RowTotal(j) = max_epochs * batches_per_epoch(result.rows[j].client)

---------------------------------------------------------------------------
(* C5 *)

\* energy (half units) the green rows of zone z draw at timestep i
C5_ZoneDraw(z, i) ==
    LET J == {j \in GreenRowSet : zone(result.rows[j].client) = z}
    IN SetSum([j \in J |-> result.rows[j].alloc[i]
                              * energy_per_batch2(result.rows[j].client)], J)

\* C5: for every table of the green model at horizon d, every zone and every
\* timestep of the horizon, the energy the zone's green rows draw at that
\* timestep does not exceed the zone's forecast energy at that timestep.
C5_ZoneEnergyCeiling ==
    (op = "fedzero" /\ IsTable) =>
        \A z \in Zones : \A i \in 1..Len(result.cols) :
            C5_ZoneDraw(z, i) <= env.powerFc[z][i]

\* two green rows of one zone draw energy at the same timestep
C5_Witness ==
    /\ op = "fedzero" /\ IsTable
    /\ \E i \in GreenRowSet : \E j \in GreenRowSet : \E t \in 1..Len(result.cols) :
          /\ i # j
          /\ zone(result.rows[i].client) = zone(result.rows[j].client)
          /\ result.rows[i].alloc[t] > 0
          /\ result.rows[j].alloc[t] > 0

---------------------------------------------------------------------------
(* C6 *)

C6_GreenEnergy2 == SetSum([j \in GreenRowSet |-> RowEnergy2(j)], GreenRowSet)
C6_BrownEnergy2 == SetSum([j \in BrownRowSet |-> RowEnergy2(j)], BrownRowSet)
\* round(green energy * BROWN_CLIENTS_BUDGET_PERCENTAGE)
C6_Budget == RoundHalfEven(C6_GreenEnergy2 * BROWN_CLIENTS_BUDGET_PERCENTAGE, 2)

\* C6: whenever the FedZero select returns a table with brown rows, the energy
\* of the brown rows is at most 1.01 * budget, the budget being
\* round(green energy * BROWN_CLIENTS_BUDGET_PERCENTAGE); the rows are returned
\* as solved, and no call ends in the RuntimeError unless the bound is exceeded.
C6_BrownWithinBudget ==
    op = "fedzero" =>
        /\ (IsTable /\ BrownRowSet # {}) =>
              100 * C6_BrownEnergy2 <= 101 * 2 * C6_Budget
        /\ ~(result.kind = "raise" /\ result.exc = "RuntimeError")

\* a table with brown rows whose green energy is not a whole number of units
C6_Witness ==
    /\ op = "fedzero" /\ IsTable
    /\ BrownRowSet # {}
    /\ C6_GreenEnergy2 % 2 = 1

---------------------------------------------------------------------------
(* C7 *)

C7_Pool ==
    BrownClients(FilterForecast(env, SearchCandidates, Len(result.cols), cfg.min_epochs),
                 FilterCapacity(env, SearchCandidates, Len(result.cols), cfg.min_epochs),
                 fz.excluded_clients, ReturnedGreen)

\* C7: in a round inside the brown window a table is returned only if the brown
\* solution selects at least min(size of the brown pool,
\* max(1, K * BROWN_CLIENTS_NUMBER_PERCENTAGE)) participants; the green solution
\* of a horizon is never returned on its own.
C7_MinimumBrownCount ==
    (op = "fedzero" /\ IsTable /\ BrownWindow(env.round_number)) =>
        /\ BrownRowSet # {}
        /\ Cardinality(BrownRowSet) >=
              Min2(Len(C7_Pool), Max2(1, cfg.K * BROWN_CLIENTS_NUMBER_PERCENTAGE))

\* a table of the second horizon inside the brown window: the first horizon
\* had a green solution whose brown extension failed
C7_Witness ==
    /\ op = "fedzero" /\ IsTable /\ BrownWindow(env.round_number)
    /\ Len(result.cols) = 2
    /\ C1_GreenSolutions(1) # {}
    /\ Cardinality(BrownRowSet) >= 2

---------------------------------------------------------------------------
(* C8 *)

\* C8 as claimed: no select call changes a participation counter or a brown
\* flag of any participant.
C8_SelectMutatesNothing ==
    [][op' \in SelectOps =>
          /\ participated_rounds' = participated_rounds
          /\ is_brown' = is_brown]_vars

\* C8 as amended: a select call changes no participation counter, marker or
\* statistical utility; the Random and Oort select change no brown flag; the
\* FedZero select sets the brown flag of exactly the participants of the brown
\* rows of the table it returns and changes no other flag.
C8_SelectSetsOnlyBrownFlags ==
    [][op' \in SelectOps =>
          /\ participated_rounds' = participated_rounds
          /\ last_round' = last_round
          /\ stat_util' = stat_util
          /\ is_brown' =
                [c \in Clients |->
                    \/ is_brown[c]
                    \/ /\ op' = "fedzero"
                       /\ result'.kind = "table"
                       /\ \E j \in 1..Len(result'.rows) :
                             result'.rows[j].brown /\ result'.rows[j].client = c]]_vars

C8_Witness ==
    /\ op = "fedzero" /\ IsTable
    /\ \E c \in Clients : is_brown[c]
    /\ \E c \in Clients : ~is_brown[c]

---------------------------------------------------------------------------
(* C9 *)

\* C9: two FedZero strategies built with the same seed and given the same
\* calls have the same excluded sets after every call, whatever the order in
\* which each iterates the set of last-round participants.
C9_SameExcludedSets ==
    Range(fz.excluded_clients) = Range(fz2.excluded_clients)

---------------------------------------------------------------------------
(* C10 *)

\* the candidates that pass the random strategy's energy and capacity filter
C10_Qualifying ==
    {c \in Clients :
        /\ env.powerActual[zone(c)] > 0
        /\ env.loadActual[c] > 0
        /\ cfg.use_forecasts =>
              ForecastBatches2(env, c, MaxD) >=
                  batches_per_epoch(c) * cfg.min_epochs * energy_per_batch2(c)}

\* C10: the Random select returns None exactly when fewer than K candidates
\* pass the filter; otherwise it returns a table of exactly K pairwise
\* distinct participants that passed the filter, every cell 1, with the single
\* column now + TIMESTEP_IN_MIN.
C10_RandomSelection ==
    op = "random" =>
        /\ result.kind \in {"none", "table"}
        /\ result.kind = "none" <=> Cardinality(C10_Qualifying) < cfg.K
        /\ IsTable =>
              /\ Len(result.rows) = cfg.K
              /\ Cardinality({result.rows[j].client : j \in RowSet}) = cfg.K
              /\ \A j \in RowSet :
                    /\ result.rows[j].client \in C10_Qualifying
                    /\ result.rows[j].alloc = <<1>>
              /\ result.cols = <<env.now + TIMESTEP_IN_MIN>>

C10_Witness ==
    /\ op = "random" /\ IsTable
    /\ cfg.use_forecasts
    /\ Cardinality(C10_Qualifying) > cfg.K
    /\ Cardinality(FilterCurrent(env)) > Cardinality(C10_Qualifying)

---------------------------------------------------------------------------
(* C11 - C15: the utility judges *)

\* the pool's smallest and largest participation count and statistical utility
PoolMinPart == CHOOSE m \in {participated_rounds[c] : c \in Clients} :
                   \A c \in Clients : m <= participated_rounds[c]
PoolMinStat == CHOOSE m \in {stat_util[c] : c \in Clients} :
                   \A c \in Clients : m <= stat_util[c]
PoolMaxStat == CHOOSE m \in {stat_util[c] : c \in Clients} :
                   \A c \in Clients : m >= stat_util[c]
WeightIsOne(c) == weighting.w[c][1] = weighting.w[c][2] /\ weighting.w[c][2] > 0

\* C11: utility() of every judge returns, for every participant of the pool,
\* a weight in [0, 1].
C11_WeightsInUnitInterval ==
    weighting.judge # "none" =>
        \A c \in Clients :
            /\ weighting.w[c][2] > 0
            /\ 0 <= weighting.w[c][1]
            /\ weighting.w[c][1] <= weighting.w[c][2]

\* a participation weighting with a weight strictly between 0 and 1 next to
\* a participant that never took part
C11_Witness ==
    /\ weighting.judge = "part"
    /\ \E c \in Clients : participated_rounds[c] = 0
    /\ \E c \in Clients :
          0 < weighting.w[c][1] /\ weighting.w[c][1] < weighting.w[c][2]

\* C12: a participant whose utility weight is 0 appears in no row of a table
\* the FedZero select returns.
C12_ZeroWeightNeverSelected ==
    (op = "fedzero" /\ IsTable) =>
        \A j \in RowSet : weighting.w[result.rows[j].client][1] # 0

\* C13 as claimed: the participation judge gives a participant with count
\* p > 0 the weight (m / p) ^ exponent, m the minimum count over the pool, and
\* a participant with count 0 the weight 1.
C13_WeightByMinimum ==
    weighting.judge = "part" =>
        \A c \in Clients :
            LET q == participated_rounds[c]
            IN IF q = 0 THEN WeightIsOne(c)
               ELSE weighting.w[c][1] * IntPow(q, cfg.exponent) =
                        weighting.w[c][2] * IntPow(PoolMinPart, cfg.exponent)

\* C13 as amended: the weight of a participant with count p > 0 is
\* (max(1, m) / p) ^ exponent, m the minimum count over the pool; a
\* participant with count 0 gets the weight 1.
C13_WeightByMinimumAtLeastOne ==
    weighting.judge = "part" =>
        \A c \in Clients :
            LET q == participated_rounds[c]
            IN IF q = 0 THEN WeightIsOne(c)
               ELSE weighting.w[c][1] * IntPow(q, cfg.exponent) =
                        weighting.w[c][2] * IntPow(Max2(1, PoolMinPart), cfg.exponent)

\* a pool whose minimum count is 0 with a participant that took part, the
\* exponent positive
C13_Witness ==
    /\ weighting.judge = "part"
    /\ cfg.exponent > 0
    /\ PoolMinPart = 0
    /\ \E c \in Clients : participated_rounds[c] > 1

\* C14: with a positive exponent the participation judge never gives the
\* participant with the larger count the larger weight (count 0 included);
\* with exponent 0 every weight is 1.
C14_WeightMonotone ==
    weighting.judge = "part" =>
        /\ cfg.exponent > 0 =>
              \A a \in Clients : \A b \in Clients :
                  participated_rounds[a] > participated_rounds[b] =>
                      weighting.w[a][1] * weighting.w[b][2] <=
                          weighting.w[b][1] * weighting.w[a][2]
        /\ cfg.exponent = 0 => \A c \in Clients : WeightIsOne(c)

\* counts 0, 1 and 2 in one pool, the weights not all equal
C14_Witness ==
    /\ weighting.judge = "part"
    /\ cfg.exponent > 0
    /\ {participated_rounds[c] : c \in Clients} = {0, 1, 2}
    /\ \E c \in Clients : ~WeightIsOne(c)

\* C15: the statistical-utility judge maps a score u to
\* (u - min) / (max - min) over the pool, the minimum to 0 and the maximum to
\* 1; when all scores are equal every weight is 1.
C15_StatUtilityRescaled ==
    weighting.judge = "stat" =>
        IF PoolMaxStat = PoolMinStat
        THEN \A c \in Clients : WeightIsOne(c)
        ELSE \A c \in Clients :
                /\ weighting.w[c][2] > 0
                /\ weighting.w[c][1] * (PoolMaxStat - PoolMinStat) =
                       weighting.w[c][2] * (stat_util[c] - PoolMinStat)
                /\ stat_util[c] = PoolMinStat => weighting.w[c][1] = 0
                /\ stat_util[c] = PoolMaxStat => WeightIsOne(c)

\* three different scores: one weight strictly inside (0, 1)
C15_Witness ==
    /\ weighting.judge = "stat"
    /\ Cardinality({stat_util[c] : c \in Clients}) = 3
    /\ \E c \in Clients :
          0 < weighting.w[c][1] /\ weighting.w[c][1] < weighting.w[c][2]

---------------------------------------------------------------------------
(* C16 - C20: the exclusion cycle and the exclusion update *)

\* the mean participated-round count over the set A is the rational x
IsMeanOver(x, A) ==
    IF A = {} THEN IsNaN(x)
    ELSE /\ x[2] > 0
         /\ x[1] * Cardinality(A) = x[2] * SetSum(participated_rounds, A)

\* C16: the first call starts a cycle at now; the first call with
\* now >= cycle_start + 24h closes the cycle: it sets the reference mean to the
\* mean participated-round count over the candidates the cycle accumulated,
\* restarts the cycle at now and leaves only its own candidates in the active
\* set; between closures the active set only grows and the reference mean
\* stays; after every call now - cycle_start < 24h.
C16_CycleBookkeeping ==
    [][IF op' = "fedzero"
       THEN LET now == env'.now
                cands == FilterCurrent(env')
            IN /\ fz.cycle_start = NoCycle =>
                     /\ fz'.cycle_start = now
                     /\ fz'.cycle_active_clients = cands
                     /\ fz'.cycle_participation_mean = fz.cycle_participation_mean
               /\ (fz.cycle_start # NoCycle /\ now >= fz.cycle_start + 24 * 60) =>
                     /\ fz'.cycle_start = now
                     /\ fz'.cycle_active_clients = cands
                     /\ IsMeanOver(fz'.cycle_participation_mean,
                                   fz.cycle_active_clients)
               /\ (fz.cycle_start # NoCycle /\ now < fz.cycle_start + 24 * 60) =>
                     /\ fz'.cycle_start = fz.cycle_start
                     /\ fz'.cycle_active_clients = fz.cycle_active_clients \cup cands
                     /\ fz'.cycle_participation_mean = fz.cycle_participation_mean
               /\ now - fz'.cycle_start >= 0
               /\ now - fz'.cycle_start < 24 * 60
       ELSE fz' = fz]_vars

\* a call has closed a cycle and stored a positive mean
C16_Witness ==
    /\ op = "fedzero"
    /\ env.now >= 24 * 60
    /\ fz.cycle_start = env.now
    /\ ~IsNaN(fz.cycle_participation_mean)
    /\ fz.cycle_participation_mean[1] > 0

\* C17: in a call with cycle_start + 12h <= now < cycle_start + 24h the value
\* handed to the exclusion update is stored + (current - stored) * f, with
\* current the mean participated-round count of the active set and
\* f = (now - (cycle_start + 12h)) / 12h; it lies between stored and current
\* and equals stored at the start of the window; the stored mean is unchanged.
C17_BlendedReference ==
    [][(/\ op' = "fedzero"
        /\ cfg.alpha[1] # 0
        /\ fz.cycle_start # NoCycle
        /\ fz.cycle_start + 12 * 60 <= env'.now
        /\ env'.now < fz.cycle_start + 24 * 60) =>
          LET stored == fz.cycle_participation_mean
              A == fz.cycle_active_clients
              m == env'.now - (fz.cycle_start + 12 * 60)
              w == trace'.wallah
          IN /\ fz'.cycle_participation_mean = stored
             /\ ~IsNaN(w)
             /\ \E current \in {<<n, Cardinality(A)>> : n \in {SetSum(participated_rounds, A)}} :
                   /\ current[2] > 0
                   \* w = stored + (current - stored) * m / (12 * 60)
                   /\ w[1] * stored[2] * current[2] * (12 * 60) =
                         w[2] * (stored[1] * current[2] * (12 * 60 - m)
                                   + current[1] * stored[2] * m)
                   /\ \/ FracLeq(stored, w) /\ FracLeq(w, current)
                      \/ FracLeq(current, w) /\ FracLeq(w, stored)
             /\ m = 0 => w = stored]_vars

\* C18: with alpha = 0 the excluded list stays empty, no draw is consumed and
\* the candidates of the horizon search are all the clients that pass the
\* current filter.
C18_NoExclusionWithoutAlpha ==
    cfg.alpha[1] = 0 =>
        /\ fz.excluded_clients = <<>>
        /\ fz.rng_pos = 0
        /\ stream = <<>>
        /\ op = "fedzero" =>
              /\ trace.clients = FilterCurrent(env)
              /\ trace.added = <<>>
              /\ trace.log = <<>>

\* a call with alpha = 0 in which candidates participated in the last round
C18_Witness ==
    /\ cfg.alpha[1] = 0
    /\ op = "fedzero"
    /\ \E c \in FilterCurrent(env) :
          ParticipatedInLastRound(last_round, c, env.round_number)

\* the candidates of the last call that participated in the round before it
C19_Participants ==
    {c \in FilterCurrent(env) : last_round[c] = env.round_number - 1}

\* C19: an exclusion update adds exactly the candidates that participated in
\* the preceding round and whose statistical utility is at or below the
\* quantile, at the effective exclusion factor, of those candidates'
\* statistical utilities; a candidate that did not participate is never
\* added, and the participant with the lowest statistical utility always is.
C19_AddedAtOrBelowQuantile ==
    (op = "fedzero" /\ cfg.alpha[1] # 0) =>
        LET q16 == 4 * cfg.exclusion_factor - Min2(4, cfg.exclusion_factor)
        IN /\ Range(trace.added) =
                 {c \in C19_Participants :
                     AtOrBelowQuantile(stat_util[c], stat_util, C19_Participants, q16)}
           /\ Len(trace.added) = Cardinality(Range(trace.added))
           /\ Range(trace.added) \subseteq C19_Participants
           /\ \A c \in C19_Participants :
                 (\A x \in C19_Participants : stat_util[c] <= stat_util[x])
                     => c \in Range(trace.added)

\* two participants of the preceding round, one of them added
C19_Witness ==
    /\ op = "fedzero" /\ cfg.alpha[1] # 0
    /\ Cardinality(C19_Participants) = 2
    /\ Len(trace.added) = 1

\* the line of the reinstatement loop was printed with probability p for the
\* numerator over denominator factor / (participated_rounds - reference)
C20_LineUses(line, w, factor) ==
    LET dn == line.participated_rounds * w[2] - w[1]
        p == line.probability
    IN /\ p[2] > 0
       /\ IF ~IsNaN(w) /\ dn > 0 /\ factor[1] * w[2] <= factor[2] * dn
          THEN p[1] * factor[2] * dn = p[2] * factor[1] * w[2]
          ELSE p[1] = p[2]
       /\ line.success <=> line.draw * p[2] <= RngDen * p[1]

\* C20 as claimed: the reinstatement probability of an excluded participant
\* with difference D = participated_rounds - reference value is
\* min(exclusionFactor / D, 1) when D > 0 and 1 otherwise, exclusionFactor the
\* strategy's effective exclusion factor; the participant is reinstated
\* exactly when the draw is at or below that probability.
C20_ProbabilityByExclusionFactor ==
    op = "fedzero" =>
        \A i \in 1..Len(trace.log) :
            C20_LineUses(trace.log[i], trace.wallah,
                         <<4 * cfg.exclusion_factor - Min2(4, cfg.exclusion_factor), 16>>)

\* C20 as amended: the probability is min(alpha / D, 1) when D > 0 and 1
\* otherwise, alpha the strategy's alpha; the participant is reinstated
\* exactly when the draw is at or below that probability.
C20_ProbabilityByAlpha ==
    op = "fedzero" =>
        \A i \in 1..Len(trace.log) :
            /\ C20_LineUses(trace.log[i], trace.wallah, cfg.alpha)
            /\ trace.log[i].participated_rounds =
                   participated_rounds[trace.log[i].client]

\* a participant with D > 1 stays excluded on a draw above its probability
C20_Witness ==
    /\ op = "fedzero"
    /\ \E i \in 1..Len(trace.log) :
          /\ ~trace.log[i].success
          /\ trace.log[i].probability[1] < trace.log[i].probability[2]
          /\ trace.log[i].client \in Range(fz.excluded_clients)

---------------------------------------------------------------------------
(* C21 - C23, C26: the reinstatement pass and the excluded clients *)

\* C21: in an exclusion update in which a candidate participated in the
\* preceding round, every client that is in the excluded list when the
\* reinstatement pass starts is processed exactly once, in list order, and
\* gets exactly one draw, also when clients before it are removed in the pass.
C21_EveryExcludedProcessedOnce ==
    [][(/\ op' = "fedzero"
        /\ cfg.alpha[1] # 0
        /\ \E c \in FilterCurrent(env') : last_round[c] = env'.round_number - 1) =>
          LET start == fz.excluded_clients \o trace'.added
          IN /\ Len(trace'.log) = Len(start)
             /\ \A i \in 1..Len(start) : trace'.log[i].client = start[i]
             /\ fz'.rng_pos = fz.rng_pos + Len(start)]_vars

\* C22: in a call with alpha set in which no candidate participated in the
\* preceding round, nothing is added but the reinstatement pass runs: every
\* excluded client gets its draw, and one whose participated_rounds does not
\* exceed the reference value is not excluded after the update.
C22_PassRunsWithoutParticipants ==
    [][(/\ op' = "fedzero"
        /\ cfg.alpha[1] # 0
        /\ \A c \in FilterCurrent(env') : last_round[c] # env'.round_number - 1) =>
          /\ trace'.added = <<>>
          /\ Len(trace'.log) = Len(fz.excluded_clients)
          /\ fz'.rng_pos = fz.rng_pos + Len(fz.excluded_clients)
          /\ \A i \in 1..Len(fz.excluded_clients) :
                LET c == fz.excluded_clients[i]
                    w == trace'.wallah
                IN (~IsNaN(w) /\ participated_rounds[c] * w[2] <= w[1])
                       => c \notin Range(fz'.excluded_clients)]_vars

\* C23: with alpha set, no client that is in the excluded list after the
\* call's exclusion update is a row of the table the call returns, green or
\* brown.
C23_ExcludedNotInTable ==
    (op = "fedzero" /\ cfg.alpha[1] # 0 /\ IsTable) =>
        \A j \in RowSet : result.rows[j].client \notin Range(fz.excluded_clients)

\* a table with a brown row is returned while a client that has capacity and
\* energy is excluded
C23_Witness ==
    /\ op = "fedzero" /\ cfg.alpha[1] # 0 /\ IsTable
    /\ BrownRowSet # {}
    /\ \E c \in FilterCurrent(env) : c \in Range(fz.excluded_clients)

\* the events of kind k for client c in the sequence ev
C24_Count(ev, k, c) ==
    Cardinality({i \in 1..Len(ev) : ev[i].kind = k /\ ev[i].client = c})

\* C24: over any sequence of Oort select calls every client is registered
\* with the selector exactly once, in the first call and before any update or
\* selection; a call with at least K feasible candidates gives each feasible
\* candidate exactly one update (a utility update if it participated in the
\* previous round, a duration update otherwise) and then asks the selector
\* for K names; a call with fewer than K feasible candidates returns None
\* without any update or selection.
C24_OortProtocol ==
    [][op' = "oort" =>
         LET old == oort.events
             all == oort'.events
             new == SubSeq(all, Len(old) + 1, Len(all))
             nreg == IF calls = 0 THEN NumClients ELSE 0
             rest == SubSeq(new, nreg + 1, Len(new))
             feasible == FilterCurrent(env')
         IN /\ Len(all) >= Len(old) + nreg
            /\ SubSeq(all, 1, Len(old)) = old
            /\ \A c \in Clients : C24_Count(all, "register", c) = 1
            /\ \A i \in 1..nreg : new[i].kind = "register"
            /\ \A i \in 1..Len(rest) : rest[i].kind # "register"
            /\ IF Cardinality(feasible) >= cfg.K
               THEN /\ Len(rest) = Cardinality(feasible) + 1
                    /\ rest[Len(rest)].kind = "select"
                    /\ \A c \in feasible :
                          IF last_round[c] = env'.round_number - 1
                          THEN /\ C24_Count(rest, "utility", c) = 1
                               /\ C24_Count(rest, "duration", c) = 0
                          ELSE /\ C24_Count(rest, "utility", c) = 0
                               /\ C24_Count(rest, "duration", c) = 1
                    /\ result'.kind = "table"
                    /\ Len(result'.rows) = cfg.K
                    /\ \A j \in 1..Len(result'.rows) :
                          result'.rows[j].client \in feasible
               ELSE /\ rest = <<>>
                    /\ result'.kind = "none"]_vars

\* a later call updates the utility of one feasible client and the duration
\* of another
C24_Witness ==
    /\ op = "oort" /\ calls >= 2 /\ IsTable
    /\ \E c, x \in FilterCurrent(env) :
          /\ oort.updates[c] = "utility"
          /\ oort.updates[x] = "duration"
    /\ \A c \in Clients : C24_Count(oort.events, "register", c) = 1

\* the excluded list holds no client twice
C25_NoDuplicates ==
    \A i, j \in 1..Len(fz.excluded_clients) :
        fz.excluded_clients[i] = fz.excluded_clients[j] => i = j

\* C25: after any sequence of FedZero select calls, calls repeated with the
\* same round number after a None result included, the excluded list holds
\* each client at most once, and a client the last call reinstated is not
\* excluded any more.
C25_ExcludedAtMostOnce ==
    /\ C25_NoDuplicates
    /\ op = "fedzero" =>
          \A i \in 1..Len(trace.log) :
              trace.log[i].success =>
                  trace.log[i].client \notin Range(fz.excluded_clients)

\* C26: in a call that is not inside the transition window, the call that
\* closes a cycle included, the reference value handed to the exclusion update
\* is the reference mean the strategy stores after the call's cycle update.
C26_ReferenceIsStoredMean ==
    [][(/\ op' = "fedzero"
        /\ cfg.alpha[1] # 0
        /\ \/ fz.cycle_start = NoCycle
           \/ env'.now < fz.cycle_start + 12 * 60
           \/ env'.now >= fz.cycle_start + 24 * 60) =>
          trace'.wallah = fz'.cycle_participation_mean]_vars

====
